---------------------------- MODULE Spec2Model ----------------------------
(***************************************************************************)
(* Model of the IQ question-generation network (src/models/iq.py) and of   *)
(* its evaluation harness (src/evaluate.py).                               *)
(*                                                                         *)
(* Tensors are tuples (a vector) or tuples of tuples (a matrix, one row    *)
(* per example).  A floating point number is a fixed-point integer counted *)
(* in 1/Unit, saturating to the infinities beyond FMax, with one NaN.      *)
(***************************************************************************)
EXTENDS Integers, Sequences, FiniteSets, TLC

\* ------------------------------------------------------------------ bounds
Unit == 4              \* fixed-point resolution: 1.0 is Unit
FMax == 1048576        \* largest finite magnitude of the number format
ZSize == 2             \* z_size, the latent dimension
BatchSize == 2         \* args.batch_size
MaxExamples == 3       \* largest dataset the loader yields
MaxLen == 3            \* max_len of the decoder
VocabSize == 4         \* len(vocab)
NumLayers == 2         \* num_layers of the decoder

\* ------------------------------------------------------- number format
PInf == FMax + 1
NInf == 0 - (FMax + 1)
NaN == FMax + 2

IsNaN(x) == x = NaN
IsInf(x) == x = PInf \/ x = NInf
IsFinite(x) == x >= 0 - FMax /\ x <= FMax

Mag(x) == IF x < 0 THEN 0 - x ELSE x
Neg(x) == x < 0
Round(x) == IF x > FMax THEN PInf ELSE IF x < 0 - FMax THEN NInf ELSE x

\* a + b
FAdd(a, b) ==
  IF IsNaN(a) \/ IsNaN(b) THEN NaN
  ELSE IF IsInf(a) /\ IsInf(b) THEN (IF a = b THEN a ELSE NaN)
  ELSE IF IsInf(a) THEN a
  ELSE IF IsInf(b) THEN b
  ELSE Round(a + b)

\* a * b
FMul(a, b) ==
  IF IsNaN(a) \/ IsNaN(b) THEN NaN
  ELSE IF a = 0 \/ b = 0 THEN (IF IsInf(a) \/ IsInf(b) THEN NaN ELSE 0)
  ELSE IF IsInf(a) \/ IsInf(b) \/ Mag(a) > (FMax * Unit + Unit - 1) \div Mag(b)
       THEN (IF Neg(a) = Neg(b) THEN PInf ELSE NInf)
  ELSE LET m == (Mag(a) * Mag(b)) \div Unit
       IN  IF Neg(a) = Neg(b) THEN Round(m) ELSE Round(0 - m)

\* abs(a)
FAbs(a) == IF IsNaN(a) THEN NaN ELSE Mag(a)

\* a.pow(-1): 1/0 is an infinity, 1/inf is 0, and the reciprocal of a finite
\* non-zero number is never exactly 0
FRecip(a) ==
  IF IsNaN(a) THEN NaN
  ELSE IF a = 0 THEN PInf
  ELSE IF IsInf(a) THEN 0
  ELSE LET q == (Unit * Unit) \div Mag(a)
           m == IF q = 0 THEN 1 ELSE q
       IN  IF Neg(a) THEN 0 - m ELSE m

\* torch.nan_to_num with its defaults: NaN becomes 0, +inf the largest finite
\* number, -inf the smallest
nan_to_num(x) ==
  IF IsNaN(x) THEN 0
  ELSE IF x = PInf THEN FMax
  ELSE IF x = NInf THEN 0 - FMax
  ELSE x

\* Tensor.clamp(min=lo, max=hi): NaN stays NaN
clamp(x, lo, hi) ==
  IF IsNaN(x) THEN NaN
  ELSE IF x < lo THEN lo
  ELSE IF x > hi THEN hi
  ELSE x

\* 0.5 * x
FHalf(x) == IF IsNaN(x) \/ IsInf(x) THEN x ELSE x \div 2

\* e^k for an integer k, in units (e is taken as 68/25); never 0 in the
\* range the clamp leaves
RECURSIVE ExpInt(_)
ExpInt(k) ==
  IF k = 0 THEN Unit
  ELSE IF k > 64 THEN PInf
  ELSE IF k < 0 - 64 THEN 0
  ELSE IF k > 0
       THEN LET p == ExpInt(k - 1)
            IN  IF p = PInf THEN PInf ELSE Round((p * 68) \div 25)
  ELSE LET p == ExpInt(k + 1)
           q == (p * 25) \div 68
       IN  IF q = 0 THEN 1 ELSE q

\* torch.exp
FExp(x) ==
  IF IsNaN(x) THEN NaN
  ELSE IF x = PInf THEN PInf
  ELSE IF x = NInf THEN 0
  ELSE ExpInt(x \div Unit)

\* the 1e-8 of reparameterize, in units
Tiny == Unit \div 100000000

\* ------------------------------------------------------ program constants
MuClamp == 2           \* mus.clamp(min=-2, max=2)
LogvarClamp == 20      \* logvars.clamp(min=-20, max=20)
sos_id == 1            \* vocab(vocab.SYM_SOQ)
eos_id == 2            \* vocab(vocab.SYM_EOS)

None == <<>>

\* ------------------------------------------------------ the random source
\* torch.manual_seed / torch.cuda.manual_seed: the generator state of a seed
manual_seed(seed) == (7 * seed + 1) % 16

RngNext(s) == (5 * s + 3) % 16

RECURSIVE RngAt(_, _)
RngAt(s, i) == IF i = 0 THEN s ELSE RngNext(RngAt(s, i - 1))

\* one standard normal draw from generator state s: -2.0 .. 2.0
randn(s) == ((s % 5) - 2) * Unit

\* the draw for entry (b, j) of a (batch, z_size) tensor filled in row order
DrawAt(s, b, j) == randn(RngAt(s, (b - 1) * ZSize + (j - 1)))

\* ------------------------------------------------------------- the layers
\* nn.Linear with one input feature: w * x + b
Linear(w, b, x) == FAdd(FMul(w, x), b)

\* nn.Linear(z_size, .) with one output feature: sum_j w[j] * x[j] + b
RECURSIVE Dot(_, _, _)
Dot(w, x, n) == IF n = 0 THEN 0 ELSE FAdd(Dot(w, x, n - 1), FMul(w[n], x[n]))

\* EncoderCNN: a fixed feature extractor, one feature per image
encoder_cnn(image) == FMul(2 * Unit, image)

\* category_embedding followed by the category_encoder MLP
category_encoder(category) == (category - 1) * Unit

\* the category_attention MLP over the concatenated features
category_attention(row) == FAdd(row[1], row[2])

\* the gen_decoder MLP
gen_decoder(x) == FHalf(x)

encode_images(images) == [b \in DOMAIN images |-> encoder_cnn(images[b])]

encode_categories(categories) ==
  [b \in DOMAIN categories |-> category_encoder(categories[b])]

\* -------------------------------------------------------------- tensors
\* v evaluated once and handed to Op
Let(v, Op(_)) == CHOOSE r \in {Op(w) : w \in {v}} : TRUE

\* a vector, and a matrix, with every entry computed
Vector(f) == f \o <<>>

Matrix(f) == [b \in DOMAIN f |-> Vector(f[b])] \o <<>>

\* ------------------------------------------------------------ the sampler
\* d = nan_to_num(abs(alpha.data.pow(-1)))
NoiseScale(al) == Vector([j \in DOMAIN al |-> nan_to_num(FAbs(FRecip(al[j])))])

\* std = exp(0.5 * logvar)
StdOf(logvar) ==
  Matrix([b \in DOMAIN logvar |-> [j \in DOMAIN logvar[b] |->
            FExp(FHalf(logvar[b][j]))]])

\* Normal(loc, scale) checks its arguments: every scale must be > 0
NormalArgsValid(d) == \A j \in DOMAIN d : ~IsNaN(d[j]) /\ d[j] > 0

\* Normal(zeros, d).sample(): loc + scale * a standard normal draw
NormalSample(d, s, batch) ==
  Matrix([b \in 1..batch |-> [j \in 1..ZSize |-> FMul(d[j], DrawAt(s, b, j))]])

\* torch.randn_like(std)
randn_like(std, s) ==
  Matrix([b \in DOMAIN std |-> [j \in 1..ZSize |-> DrawAt(s, b, j)]])

\* eps.mul(std).add_(mu): the sum is written into the product, a new tensor
MulAdd(eps, std, mu) ==
  Matrix([b \in DOMAIN mu |-> [j \in DOMAIN mu[b] |->
            FAdd(FMul(eps[b][j], std[b][j]), mu[b][j])]])

\* the sampler of the scaled-noise mode; mu and logvar are (batch, z_size).
\* What it returns is zs; d and mu (as the call leaves it) are kept for
\* inspection.
reparameterize(mu, logvar, al, s, cuda) ==
  Let(<<StdOf(logvar), NoiseScale(al)>>, LAMBDA p :
    IF ~cuda
    THEN [status |-> "no_cuda", d |-> p[2], mu |-> mu, zs |-> None, rng |-> s]
    ELSE IF ~NormalArgsValid(p[2])
    THEN [status |-> "bad_scale", d |-> p[2], mu |-> mu, zs |-> None, rng |-> s]
    ELSE Let(MulAdd(NormalSample(p[2], s, Len(mu)), p[1], mu), LAMBDA sum :
           [status |-> "ok", d |-> p[2], mu |-> mu,
            zs |-> Matrix([b \in DOMAIN sum |-> [j \in DOMAIN sum[b] |->
                     FAdd(sum[b][j], Tiny)]]),
            rng |-> RngAt(s, Len(mu) * ZSize)]))

\* the sampler of the standard-normal mode
reparameterize_prev(mu, logvar, s) ==
  Let(StdOf(logvar), LAMBDA std :
    [status |-> "ok", d |-> None, mu |-> mu,
     zs |-> MulAdd(randn_like(std, s), std, mu),
     rng |-> RngAt(s, Len(mu) * ZSize)])

\* a clamp that lost its upper bound
ClampMu_NoMax(x) == clamp(x, 0 - MuClamp * Unit, PInf)

ClampMu(x) == clamp(x, 0 - MuClamp * Unit, MuClamp * Unit)

ClampLogvar(x) == clamp(x, 0 - LogvarClamp * Unit, LogvarClamp * Unit)

\* mu_category_encoder and logvar_category_encoder over the attended
\* features: <<mus, logvars>> before the clamps
Project(W, image_features, category_features) ==
  Let(Vector([b \in DOMAIN image_features |->
                category_attention(<<image_features[b], category_features[b]>>)]),
      LAMBDA attended :
        <<Matrix([b \in DOMAIN attended |-> [j \in 1..ZSize |->
                    Linear(W.muW[j], W.muB[j], attended[b])]]),
          Matrix([b \in DOMAIN attended |-> [j \in 1..ZSize |->
                    Linear(W.lvW[j], W.lvB[j], attended[b])]])>>)

\* vqg is the model object: [bayes, alpha, weights, rnn_cell, training].
\* Returns mus, logvars, zs (status "ok"), or raises (any other status).
encode_into_t(vqg, image_features, category_features, s, cuda) ==
  Let(Project(vqg.weights, image_features, category_features), LAMBDA raw :
    Let(<<Matrix([b \in DOMAIN raw[1] |-> [j \in 1..ZSize |-> ClampMu(raw[1][b][j])]]),
          Matrix([b \in DOMAIN raw[2] |-> [j \in 1..ZSize |-> ClampLogvar(raw[2][b][j])]])>>,
        LAMBDA c :
          Let(IF vqg.bayes
              THEN reparameterize(c[1], c[2], vqg.alpha, s, cuda)
              ELSE reparameterize_prev(c[1], c[2], s),
              LAMBDA r :
                [status |-> r.status, rawMus |-> raw[1], rawLvs |-> raw[2],
                 mus |-> IF r.status = "ok" THEN r.mu ELSE None,
                 logvars |-> IF r.status = "ok" THEN c[2] ELSE None,
                 zs |-> r.zs, d |-> r.d, rng |-> r.rng])))

\* ------------------------------------------------------------ the decoder
\* the place of the largest score counted from 1
ArgMax_FromOne(row) ==
  LET hasNaN   == \E k \in DOMAIN row : IsNaN(row[k])
      isMax(i) == IF hasNaN THEN IsNaN(row[i])
                  ELSE \A k \in DOMAIN row : row[k] <= row[i]
  IN  CHOOSE i \in DOMAIN row : isMax(i) /\ \A k \in 1..(i - 1) : ~isMax(k)

\* o.max(1)[1] of one row: the index (from 0) of the first largest score; a
\* NaN counts as the largest
ArgMax(row) ==
  LET hasNaN   == \E k \in DOMAIN row : IsNaN(row[k])
      isMax(i) == IF hasNaN THEN IsNaN(row[i])
                  ELSE \A k \in DOMAIN row : row[k] <= row[i]
  IN  (CHOOSE i \in DOMAIN row : isMax(i) /\ \A k \in 1..(i - 1) : ~isMax(k)) - 1

\* the decoder cell's scores over the vocabulary for hidden state h, input
\* token tok at step t
Logits(h, tok, t) ==
  Vector([v \in 1..VocabSize |->
            IF ~IsFinite(h) THEN NaN
            ELSE ((((h \div Unit) + 2) * v + 3 * tok * v * v + t) % 7) * Unit])

\* F.log_softmax over one row: a shift by the row's log-sum-exp (taken as its
\* maximum), NaN if any entry is
log_softmax(row) ==
  LET hasNaN == \E k \in DOMAIN row : IsNaN(row[k])
      top    == CHOOSE x \in {row[k] : k \in DOMAIN row} :
                  \A k \in DOMAIN row : row[k] <= x
  IN  Vector([v \in DOMAIN row |-> IF hasNaN THEN NaN ELSE row[v] - top])

CellUpdate(h, tok) == IF IsFinite(h) THEN Round(h + (tok + 1) * Unit) ELSE h

\* random.random() < teacher_forcing_ratio, for the coin drawn at one step
UseTeacherForcing(teacher_forcing_ratio, coin) == coin < teacher_forcing_ratio

\* one step of the decoder: the scores it records and the symbol it chooses
DecoderStep(h, tok, t) ==
  Let(log_softmax(Logits(h, tok, t)), LAMBDA row :
    [h |-> h, tok |-> tok, scores |-> row, sym |-> ArgMax(row)])

\* the first t steps for one example.  The input of step 1 is <start>; with
\* teacher forcing (tf[t], and a question given) the input of step t + 1 is
\* the reference token, otherwise the symbol chosen at step t.
RECURSIVE DecoderRun(_, _, _, _)
DecoderRun(h0, question, tf, t) ==
  IF t = 0 THEN <<>>
  ELSE IF t = 1 THEN <<DecoderStep(h0, sos_id, 1)>>
  ELSE Let(DecoderRun(h0, question, tf, t - 1), LAMBDA run :
         Let(run[t - 1], LAMBDA prev :
           Append(run,
                  DecoderStep(CellUpdate(prev.h, prev.tok),
                              IF question # None /\ tf[t - 1]
                              THEN question[t - 1] ELSE prev.sym,
                              t))))

\* DecoderRNN.forward: max_len steps for every example, whether or not the
\* end-of-sequence token was emitted already.  encoder_hidden is
\* (num_layers, batch) (a pair of them for an LSTM); the top layer drives
\* the output.  The result is (outputs, hidden, lengths).
DecoderRNN(inputs, encoder_hidden, rnn_cell, teacher_forcing_ratio, coins) ==
  Let(<<Vector([t \in 1..MaxLen |->
                  UseTeacherForcing(teacher_forcing_ratio, coins[t])]),
        IF rnn_cell = "LSTM" THEN encoder_hidden[1][NumLayers]
        ELSE encoder_hidden[NumLayers]>>,
      LAMBDA p :
        Let(Vector([b \in DOMAIN p[2] |->
                      DecoderRun(p[2][b],
                                 IF inputs = None THEN None ELSE inputs[b],
                                 p[1], MaxLen)]),
            LAMBDA runs :
              <<Matrix([t \in 1..MaxLen |-> [b \in DOMAIN runs |-> runs[b][t].scores]]),
                Vector([b \in DOMAIN runs |-> runs[b][MaxLen].h]),
                Vector([b \in DOMAIN runs |->
                   IF \E t \in 1..MaxLen : runs[b][t].sym = eos_id
                   THEN CHOOSE t \in 1..MaxLen : runs[b][t].sym = eos_id
                          /\ \A u \in 1..(t - 1) : runs[b][u].sym # eos_id
                   ELSE MaxLen])>>))

\* transpose(0, 1) of a (max_len, batch) matrix
Transpose(m, batch) == Matrix([b \in 1..batch |-> [t \in DOMAIN m |-> m[t][b]]])

\* the stacked symbols left as (max_len, batch)
parse_outputs_NoTranspose(outputs) ==
  Matrix([t \in DOMAIN outputs |-> [b \in DOMAIN outputs[t] |->
            ArgMax(outputs[t][b])]])

\* [o.max(1)[1] for o in outputs], torch.stack, transpose(0, 1)
parse_outputs_to_tokens(outputs) ==
  Let(Matrix([t \in DOMAIN outputs |-> [b \in DOMAIN outputs[t] |->
                ArgMax(outputs[t][b])]]),
      LAMBDA stacked : Transpose(stacked, Len(stacked[1])))

\* only the first layer given the projected vectors, the others zeros
InitialHidden_FirstLayerOnly(vqg, hiddens) ==
  Let(Matrix([l \in 1..NumLayers |->
                IF l = 1 THEN hiddens ELSE [b \in DOMAIN hiddens |-> 0]]),
      LAMBDA expanded :
        IF vqg.rnn_cell = "LSTM" THEN <<expanded, expanded>> ELSE expanded)

\* hiddens.view((1, batch_size, .)).expand((num_layers, batch_size, .)), and
\* the pair (hiddens, hiddens) for an LSTM
InitialHidden(vqg, hiddens) ==
  Let(Matrix([l \in 1..NumLayers |-> hiddens]), LAMBDA expanded :
    IF vqg.rnn_cell = "LSTM" THEN <<expanded, expanded>> ELSE expanded)

decode_questions(vqg, image_features, ts, questions, teacher_forcing_ratio, coins) ==
  Let(Vector([b \in 1..Len(ts) |->
                FAdd(Dot(vqg.weights.tW, ts[b], ZSize), vqg.weights.tB)]),
      LAMBDA t_hiddens :
        Let(InitialHidden(vqg,
              IF image_features = None THEN t_hiddens
              ELSE Vector([b \in 1..Len(ts) |->
                             gen_decoder(FAdd(image_features[b], t_hiddens[b]))])),
            LAMBDA hiddens :
              Let(DecoderRNN(questions, hiddens, vqg.rnn_cell,
                             teacher_forcing_ratio, coins),
                  LAMBDA result :
                    [result |-> result,
                     preds |-> parse_outputs_to_tokens(result[1]),
                     hiddens |-> hiddens, batch |-> Len(ts)])))

\* ----------------------------------------------------- the model's methods
encode_from_category(vqg, images, categories, s, cuda) ==
  Let(Vector(encode_images(images)), LAMBDA image_features :
    Let(encode_into_t(vqg, image_features,
                      Vector(encode_categories(categories)), s, cuda),
        LAMBDA e :
          [status |-> e.status, image_features |-> image_features,
           ts |-> e.zs, enc |-> e, rng |-> e.rng]))

\* the call with one half handed to the decoder as the teacher forcing ratio
predict_from_category_HalfRatio(vqg, images, categories, questions, teacher_forcing_ratio, coins, s, cuda) ==
  Let(encode_from_category(vqg, images, categories, s, cuda), LAMBDA e :
    IF e.status # "ok"
    THEN [status |-> e.status, tokens |-> None, enc |-> e.enc, dec |-> None,
          rng |-> e.rng]
    ELSE Let(decode_questions(vqg, e.image_features, e.ts, questions,
                              Unit \div 2, coins),
             LAMBDA d :
               [status |-> "ok", tokens |-> d.preds, enc |-> e.enc, dec |-> d,
                rng |-> e.rng]))

\* coins[t] is the value random.random() gives the decoder at step t
predict_from_category(vqg, images, categories, questions, teacher_forcing_ratio, coins, s, cuda) ==
  Let(encode_from_category(vqg, images, categories, s, cuda), LAMBDA e :
    IF e.status # "ok"
    THEN [status |-> e.status, tokens |-> None, enc |-> e.enc, dec |-> None,
          rng |-> e.rng]
    ELSE Let(decode_questions(vqg, e.image_features, e.ts, questions,
                              teacher_forcing_ratio, coins),
             LAMBDA d :
               [status |-> "ok", tokens |-> d.preds, enc |-> e.enc, dec |-> d,
                rng |-> e.rng]))

\* the names bound in IQ.forward when it reaches the sampler: its
\* parameters and image_features
ForwardLocals ==
  {"self", "images", "answers", "categories", "alengths", "questions",
   "teacher_forcing_ratio", "decode_function", "image_features"}

\* forward reads mus and logvars, which nothing in it has bound
forward(vqg, images, questions, teacher_forcing_ratio, coins, s, cuda) ==
  Let(Vector(encode_images(images)), LAMBDA image_features :
    IF ~({"mus", "logvars"} \subseteq ForwardLocals)
    THEN [status |-> "NameError", result |-> None, rng |-> s]
    ELSE [status |-> "unreached", result |-> None, rng |-> s])

\* ------------------------------------------------------------- the state
VARIABLES
  vqg,           \* the model: [bayes, alpha, weights, rnn_cell, training]
  cuda,          \* torch.cuda.is_available()
  grad_enabled,  \* torch's gradient mode
  seed,          \* args.seed
  rng,           \* state of torch's generator
  args,          \* [from_answer]
  data_loader,   \* the examples, in loader order
  pc,            \* where evaluate()/main() stands
  iterations,    \* batches consumed so far
  batch,         \* indices of the examples of the batch in hand
  outputs,       \* what the prediction call returned for it
  preds,         \* evaluate()'s preds
  gts,           \* evaluate()'s gts
  emitted,       \* the token rows handed to tokens_to_words, with their example
  scores,        \* what compute_metrics returned
  files,         \* the output files written so far
  mpc,           \* where a direct use of the model stands
  inp,           \* the arguments of the direct calls
  ret,           \* what the last model call returned
  ret1           \* what the first of two prediction calls returned

vars == <<vqg, cuda, grad_enabled, seed, rng, args, data_loader, pc, iterations,
          batch, outputs, preds, gts, emitted, scores, files, mpc, inp, ret, ret1>>

harnessVars == <<args, data_loader, pc, iterations, batch, outputs, preds, gts,
                 emitted, scores, files>>

callVars == <<mpc, inp, ret1>>

\* ----------------------------------------------------------- the inputs
AlphaVals == <<Unit, 0 - 2 * Unit, 0, NaN>>

\* alpha, the learned scale parameter
AlphaOf(a) == [j \in 1..ZSize |-> AlphaVals[((a + j) % Len(AlphaVals)) + 1]]

\* the loaded weights of the linear layers: small ones, ones that push the
\* projections past the clamps, ones that overflow
WeightsOf(w) ==
  [muW |-> [j \in 1..ZSize |-> IF w = 1 THEN Unit
                               ELSE IF w = 2 THEN (IF j = 1 THEN 64 * Unit ELSE 0 - 64 * Unit)
                               ELSE FMax],
   muB |-> [j \in 1..ZSize |-> IF w = 3 THEN FMax ELSE (j - 1) * Unit],
   lvW |-> [j \in 1..ZSize |-> IF w = 1 THEN 0 - Unit
                               ELSE IF w = 2 THEN (IF j = 1 THEN 0 ELSE 64 * Unit)
                               ELSE 0 - FMax],
   lvB |-> [j \in 1..ZSize |-> IF w = 3 THEN 0 - FMax ELSE j * Unit],
   tW  |-> [j \in 1..ZSize |-> IF w = 2 THEN 0 - Unit ELSE Unit],
   tB  |-> 0]

ImageVals == <<0, Unit, 0 - 3 * Unit, FMax, PInf, NaN>>

\* the models main() builds and loads: nn.Module starts in training mode
Models ==
  {[bayes |-> b, alpha |-> AlphaOf(a), weights |-> WeightsOf(w),
    rnn_cell |-> IF w = 2 THEN "GRU" ELSE "LSTM", training |-> TRUE] :
     b \in BOOLEAN, a \in 0..(Len(AlphaVals) - 1), w \in 1..3}

\* example k of the dataset
Example(k) ==
  [image    |-> (k - 1) * Unit,
   question |-> [t \in 1..MaxLen |-> (k + t) % VocabSize],
   answer   |-> <<k % VocabSize>>,
   category |-> 1 + (k % 2)]

\* ------------------------------------------------ the harness's helpers
\* the attributes class IQ defines
IQMethods ==
  {"reparameterize", "flatten_parameters", "generator_parameters",
   "cycle_params", "info_parameters", "reparameterize_prev", "modify_hidden",
   "parse_outputs_to_tokens", "encode_images", "encode_categories",
   "encode_questions_discriminator", "encode_questions", "encode_into_t",
   "decode_questions", "forward", "reconstruct_inputs",
   "encode_from_category", "predict_from_category"}

\* vocab.tokens_to_words: the words of a token sequence
idx2word(token) == <<"word", token>>

tokens_to_words(tokens) == [t \in DOMAIN tokens |-> idx2word(tokens[t])]

\* nlge.compute_metrics(ref_list=[gts], hyp_list=preds): a corpus score
compute_metrics(ref, hyp) ==
  [n |-> Len(hyp),
   exact |-> Cardinality({k \in DOMAIN hyp : k \in DOMAIN ref /\ hyp[k] = ref[k]})]

\* the indices of the examples of batch number it (from 0)
BatchOf(it, n) ==
  LET first == it * BatchSize + 1
      last  == IF (it + 1) * BatchSize < n THEN (it + 1) * BatchSize ELSE n
  IN  [i \in 1..(last - first + 1) |-> first + i - 1]

\* preds.append(vocab.tokens_to_words(outputs[i])) for i in range(size)
BatchPreds(outs, size) == [i \in 1..size |-> tokens_to_words(outs[i])]

\* the reference of the batch's first example appended for every i
BatchGts_FirstOnly(questions, size) ==
  [i \in 1..size |-> tokens_to_words(questions[1])]

\* gts.append(vocab.tokens_to_words(questions[i])) for i in range(size)
BatchGts(questions, size) == [i \in 1..size |-> tokens_to_words(questions[i])]

\* args.seed: the default and another
Seeds == {1234, 7}

\* what random.random() may give the decoder over its steps: always below
\* any positive ratio, never below one half, or the two in turn
Coins ==
  {[t \in 1..MaxLen |-> 0], [t \in 1..MaxLen |-> Unit \div 2],
   [t \in 1..MaxLen |-> IF t % 2 = 1 THEN 0 ELSE Unit \div 2]}

\* the batch's reference questions handed on, with teacher forcing at
\* every step
Predict_TeacherForced(model, images, questions, categories, coins, s, accel) ==
  predict_from_category(model, images, categories, questions, Unit, coins, s,
                        accel)

\* evaluate()'s call for a batch (images, questions, categories) when the
\* from-answer flag is not set: vqg.predict_from_category(images, categories),
\* so questions = None and teacher_forcing_ratio = 0, the defaults
Predict(model, images, questions, categories, coins, s, accel) ==
  predict_from_category(model, images, categories, None, 0, coins, s, accel)

\* ----------------------------------------------------------- evaluate()
\* __main__ seeds the generators, main() builds the loader and the model
Init ==
  /\ vqg \in Models
  /\ cuda \in BOOLEAN
  /\ grad_enabled = TRUE
  /\ seed \in Seeds
  /\ rng = manual_seed(seed)
  /\ args \in [from_answer : BOOLEAN]
  /\ \E n \in 0..MaxExamples : data_loader = [k \in 1..n |-> Example(k)]
  /\ pc = "start"
  /\ iterations = 0
  /\ batch = <<>>
  /\ outputs = None
  /\ preds = <<>>
  /\ gts = <<>>
  /\ emitted = <<>>
  /\ scores = None
  /\ files = <<>>
  /\ mpc = "off"
  /\ inp = None
  /\ ret = [call |-> "none"]
  /\ ret1 = None

\* vqg.eval(); preds = []; gts = []
EvalMode ==
  /\ pc = "start"
  /\ vqg' = [vqg EXCEPT !.training = FALSE]
  /\ preds' = <<>>
  /\ gts' = <<>>
  /\ pc' = "loop"
  /\ UNCHANGED <<cuda, grad_enabled, seed, rng, args, data_loader, iterations,
                 batch, outputs, emitted, scores, files, mpc, inp, ret, ret1>>

\* the for statement takes the next batch from the loader
Fetch ==
  /\ pc = "loop"
  /\ iterations * BatchSize < Len(data_loader)
  /\ batch' = BatchOf(iterations, Len(data_loader))
  /\ pc' = "fetched"
  /\ UNCHANGED <<vqg, cuda, grad_enabled, seed, rng, args, data_loader,
                 iterations, outputs, preds, gts, emitted, scores, files, mpc,
                 inp, ret, ret1>>

\* outputs = vqg.predict_from_answer(images, answers, alengths): IQ has no
\* such attribute, the lookup raises AttributeError
PredictFromAnswer ==
  /\ pc = "fetched"
  /\ args.from_answer
  /\ "predict_from_answer" \notin IQMethods
  /\ pc' = "failed"
  /\ ret' = [call |-> "predict_from_answer",
             val |-> [status |-> "AttributeError"],
             training |-> vqg.training, grad |-> grad_enabled]
  /\ UNCHANGED <<vqg, cuda, grad_enabled, seed, rng, args, data_loader,
                 iterations, batch, outputs, preds, gts, emitted, scores, files,
                 mpc, inp, ret1>>

\* outputs = vqg.predict_from_category(images, categories)
PredictFromCategory ==
  /\ pc = "fetched"
  /\ ~args.from_answer
  /\ \E coins \in Coins :
       LET images     == [i \in DOMAIN batch |-> data_loader[batch[i]].image]
           categories == [i \in DOMAIN batch |-> data_loader[batch[i]].category]
           questions  == [i \in DOMAIN batch |-> data_loader[batch[i]].question]
           r == Predict(vqg, images, questions, categories, coins, rng, cuda)
       IN  /\ ret' = [call |-> "predict_from_category", val |-> r,
                      training |-> vqg.training, grad |-> grad_enabled,
                      coins |-> coins, rng |-> rng]
           /\ rng' = r.rng
           /\ IF r.status = "ok"
              THEN outputs' = r.tokens /\ pc' = "predicted"
              ELSE outputs' = outputs /\ pc' = "failed"
  /\ UNCHANGED <<vqg, cuda, grad_enabled, seed, args, data_loader, iterations,
                 batch, preds, gts, emitted, scores, files, mpc, inp, ret1>>

\* the inner loop over the batch, then bar.update(iterations)
AppendBatch ==
  /\ pc = "predicted"
  /\ LET size      == Len(batch)
         questions == [i \in DOMAIN batch |-> data_loader[batch[i]].question]
     IN  /\ preds' = preds \o BatchPreds(outputs, size)
         /\ gts' = gts \o BatchGts(questions, size)
         /\ emitted' = emitted \o
                [i \in 1..size |-> [example |-> batch[i], tokens |-> outputs[i]]]
  /\ iterations' = iterations + 1
  /\ pc' = "loop"
  /\ UNCHANGED <<vqg, cuda, grad_enabled, seed, rng, args, data_loader, batch,
                 outputs, scores, files, mpc, inp, ret, ret1>>

\* the loader is exhausted: scores = nlge.compute_metrics(...); return
ComputeMetrics ==
  /\ pc = "loop"
  /\ iterations * BatchSize >= Len(data_loader)
  /\ scores' = compute_metrics(gts, preds)
  /\ pc' = "returned"
  /\ UNCHANGED <<vqg, cuda, grad_enabled, seed, rng, args, data_loader,
                 iterations, batch, outputs, preds, gts, emitted, files, mpc,
                 inp, ret, ret1>>

\* -------------------------------------------------------------- main()
WriteFile(name, content, from, to) ==
  /\ pc = from
  /\ files' = files \o <<[name |-> name, content |-> content]>>
  /\ pc' = to
  /\ UNCHANGED <<vqg, cuda, grad_enabled, seed, rng, args, data_loader,
                 iterations, batch, outputs, preds, gts, emitted, scores, mpc,
                 inp, ret, ret1>>

WriteResults == WriteFile("results", scores, "returned", "wrote_results")

\* the predictions dumped inside the loop, after each batch
WritePreds_Incremental == WriteFile("preds", preds, "loop", "loop")

WritePreds == WriteFile("preds", preds, "wrote_results", "wrote_preds")

WriteGts == WriteFile("gts", gts, "wrote_preds", "done")

Next ==
  \/ EvalMode
  \/ Fetch
  \/ PredictFromAnswer
  \/ PredictFromCategory
  \/ AppendBatch
  \/ ComputeMetrics
  \/ WriteResults
  \/ WritePreds
  \/ WriteGts

Spec == Init /\ [][Next]_vars

\* ------------------------------------------------ direct use of the model
Ratios == {0, Unit \div 2}

\* a batch of `size` images starting at place f of ImageVals
ImagesOf(f, size) ==
  [b \in 1..size |-> ImageVals[((f + b) % Len(ImageVals)) + 1]]

InputsOf(f, size) ==
  [images |-> ImagesOf(f, size),
   categories |-> [b \in 1..size |-> Example(b).category],
   questions |-> None, teacher_forcing_ratio |-> 0]

MInit ==
  /\ vqg \in Models
  /\ cuda \in BOOLEAN
  /\ grad_enabled = TRUE
  /\ seed \in Seeds
  /\ rng = manual_seed(seed)
  /\ args = [from_answer |-> FALSE]
  /\ data_loader = <<>>
  /\ pc = "off"
  /\ iterations = 0
  /\ batch = <<>>
  /\ outputs = None
  /\ preds = <<>>
  /\ gts = <<>>
  /\ emitted = <<>>
  /\ scores = None
  /\ files = <<>>
  /\ mpc = "idle"
  /\ \E size \in {1, BatchSize}, f \in {3, 5} : inp = InputsOf(f, size)
  /\ ret = [call |-> "none"]
  /\ ret1 = None

\* the same, over every run of images
EInit ==
  /\ vqg \in Models
  /\ cuda \in BOOLEAN
  /\ grad_enabled = TRUE
  /\ seed \in Seeds
  /\ rng = manual_seed(seed)
  /\ args = [from_answer |-> FALSE]
  /\ data_loader = <<>>
  /\ pc = "off"
  /\ iterations = 0
  /\ batch = <<>>
  /\ outputs = None
  /\ preds = <<>>
  /\ gts = <<>>
  /\ emitted = <<>>
  /\ scores = None
  /\ files = <<>>
  /\ mpc = "idle"
  /\ \E size \in 1..BatchSize, f \in 0..(Len(ImageVals) - 1) :
       inp = InputsOf(f, size)
  /\ ret = [call |-> "none"]
  /\ ret1 = None

\* mus, logvars, zs = vqg.encode_into_t(image_features, category_features)
CallEncodeIntoT ==
  /\ mpc = "idle"
  /\ LET e == encode_into_t(vqg, inp.images,
                            encode_categories(inp.categories), rng, cuda)
     IN  /\ ret' = [call |-> "encode_into_t", val |-> e]
         /\ rng' = e.rng
  /\ mpc' = "encoded"
  /\ UNCHANGED <<vqg, cuda, grad_enabled, seed, harnessVars, inp, ret1>>

\* result, preds = vqg.decode_questions(image_features, zs, questions=...,
\* teacher_forcing_ratio=...) on the latent sample just drawn
CallDecodeQuestions ==
  /\ mpc = "encoded"
  /\ ret.val.status = "ok"
  /\ \E image_features \in {None, inp.images},
        questions \in {None, [b \in DOMAIN inp.images |-> Example(b).question]},
        ratio \in Ratios, coins \in Coins :
       ret' = [call |-> "decode_questions", zs |-> ret.val.zs,
               image_features |-> image_features,
               val |-> decode_questions(vqg, image_features, ret.val.zs,
                                        questions, ratio, coins)]
  /\ mpc' = "decoded"
  /\ UNCHANGED <<vqg, cuda, grad_enabled, seed, rng, harnessVars, inp, ret1>>

\* vqg(images, answers, categories)
CallForward ==
  /\ mpc = "idle"
  /\ \E coins \in Coins :
       LET r == forward(vqg, inp.images, None, 0, coins, rng, cuda)
       IN  /\ ret' = [call |-> "forward", val |-> r]
           /\ rng' = r.rng
  /\ mpc' = "forwarded"
  /\ UNCHANGED <<vqg, cuda, grad_enabled, seed, harnessVars, inp, ret1>>

\* tokens = vqg.predict_from_category(images, categories, questions=...,
\* teacher_forcing_ratio=...), right after the generator was seeded
PredictFirst ==
  /\ mpc = "idle"
  /\ \E questions \in {None, [b \in DOMAIN inp.images |-> Example(b).question]},
        ratio \in Ratios, coins \in Coins :
       LET r == predict_from_category(vqg, inp.images, inp.categories,
                                      questions, ratio, coins, rng, cuda)
       IN  /\ inp' = [inp EXCEPT !.questions = questions,
                                 !.teacher_forcing_ratio = ratio]
           /\ ret' = [call |-> "predict_from_category", val |-> r]
           /\ ret1' = [status |-> r.status, tokens |-> r.tokens]
           /\ rng' = r.rng
  /\ mpc' = "pred1"
  /\ UNCHANGED <<vqg, cuda, grad_enabled, seed, harnessVars>>

\* torch.cuda.manual_seed(args.seed); torch.manual_seed(args.seed)
Reseed ==
  /\ mpc = "pred1"
  /\ rng' = manual_seed(seed)
  /\ mpc' = "reseeded"
  /\ UNCHANGED <<vqg, cuda, grad_enabled, seed, harnessVars, inp, ret, ret1>>

\* the same call again
PredictSecond ==
  /\ mpc = "reseeded"
  /\ \E coins \in Coins :
       LET r == predict_from_category(vqg, inp.images, inp.categories,
                                      inp.questions, inp.teacher_forcing_ratio,
                                      coins, rng, cuda)
       IN  /\ ret' = [call |-> "predict_from_category", val |-> r]
           /\ rng' = r.rng
  /\ mpc' = "pred2"
  /\ UNCHANGED <<vqg, cuda, grad_enabled, seed, harnessVars, inp, ret1>>

MNext ==
  \/ CallEncodeIntoT
  \/ CallDecodeQuestions
  \/ CallForward
  \/ PredictFirst
  \/ Reseed
  \/ PredictSecond

ModelSpec == MInit /\ [][MNext]_vars

ENext == CallEncodeIntoT

EncodeSpec == EInit /\ [][ENext]_vars

\* ------------------------------------------------------------ properties
\* m is a (size, max_len) matrix
IsTokenMatrix(m, size) ==
  /\ Len(m) = size
  /\ \A b \in 1..size : Len(m[b]) = MaxLen

\* the examples of the batches evaluate() has consumed
Seen ==
  IF iterations * BatchSize < Len(data_loader) THEN iterations * BatchSize
  ELSE Len(data_loader)

AfterPass == {"returned", "wrote_results", "wrote_preds", "done"}

EncodeReturned == ret.call = "encode_into_t" /\ ret.val.status = "ok"

\* C1: for every batch the harness obtains a (B, max_len) token matrix, from
\* predict_from_answer when the from-answer flag is set and from
\* predict_from_category (whenever that call returns) when it is not.
C1_BothPathwaysYieldTokenMatrix ==
  pc \in {"predicted", "failed"} =>
    IF args.from_answer THEN pc = "predicted" /\ IsTokenMatrix(outputs, Len(batch))
    ELSE pc = "predicted" => IsTokenMatrix(outputs, Len(batch))

\* C2: whatever the magnitude (finite or infinite) of the projected mean and
\* log-variance, encode_into_t returns mu within [-2, 2] and logvar within
\* [-20, 20], in both sampling modes.
C2_ClampedRange ==
  EncodeReturned =>
    \A b \in DOMAIN ret.val.mus : \A j \in 1..ZSize :
      /\ ~IsNaN(ret.val.rawMus[b][j]) =>
           /\ ret.val.mus[b][j] >= 0 - MuClamp * Unit
           /\ ret.val.mus[b][j] <= MuClamp * Unit
      /\ ~IsNaN(ret.val.rawLvs[b][j]) =>
           /\ ret.val.logvars[b][j] >= 0 - LogvarClamp * Unit
           /\ ret.val.logvars[b][j] <= LogvarClamp * Unit

\* encode_into_t has returned in scaled-noise mode with a projected mean above
\* the clamp and a projected log-variance below it
C2_Witness ==
  /\ EncodeReturned
  /\ vqg.bayes
  /\ \E b \in DOMAIN ret.val.mus : \E j \in 1..ZSize :
       /\ ~IsNaN(ret.val.rawMus[b][j])
       /\ ret.val.rawMus[b][j] > MuClamp * Unit
       /\ ret.val.mus[b][j] = MuClamp * Unit
  /\ \E b \in DOMAIN ret.val.mus : \E j \in 1..ZSize :
       /\ ret.val.rawLvs[b][j] < 0 - LogvarClamp * Unit
       /\ ret.val.logvars[b][j] = 0 - LogvarClamp * Unit

\* the batch dimension of the latent input and the decoder's result, for the
\* call ret records
DecodedShape(zs, d) ==
  /\ Len(d.result[1]) = MaxLen
  /\ IsTokenMatrix(d.preds, Len(zs))

\* C3: the token output of decode_questions has exactly max_len timesteps and
\* the batch dimension of its latent input.
C3_DecoderShape ==
  /\ ret.call = "decode_questions" => DecodedShape(ret.zs, ret.val)
  /\ (ret.call = "predict_from_category" /\ ret.val.status = "ok") =>
       DecodedShape(ret.val.enc.zs, ret.val.dec)

\* decode_questions has returned for a full batch in which every example
\* emitted <end> before the last step
C3_Witness ==
  /\ ret.call = "decode_questions"
  /\ Len(ret.zs) = BatchSize
  /\ \A b \in 1..BatchSize : \E t \in 1..(MaxLen - 1) : ret.val.preds[b][t] = eos_id

\* C4: in scaled-noise mode, for every dimension whose alpha is zero the noise
\* scale used for sampling is zero and the latent sample is finite there.
C4_ZeroAlphaScaleZeroAndFinite ==
  (EncodeReturned /\ vqg.bayes) =>
    \A j \in 1..ZSize : vqg.alpha[j] = 0 =>
      /\ ret.val.d[j] = 0
      /\ \A b \in DOMAIN ret.val.zs : IsFinite(ret.val.zs[b][j])

\* C5: preds and gts have the same length, the number of examples seen; entry
\* k of both comes from example k, in loader order; a batch is fetched only
\* when the one before is wholly appended.
C5_ListsAligned ==
  /\ Len(preds) = Seen
  /\ Len(gts) = Seen
  /\ Len(emitted) = Seen
  /\ \A k \in 1..Seen :
       /\ emitted[k].example = k
       /\ preds[k] = tokens_to_words(emitted[k].tokens)
       /\ gts[k] = tokens_to_words(data_loader[k].question)
  /\ pc \in {"fetched", "predicted"} =>
       /\ Len(batch) >= 1
       /\ batch = [i \in 1..Len(batch) |-> Seen + i]
  /\ pc \in AfterPass => Seen = Len(data_loader)

\* evaluate() has returned after a pass that ended with a partial batch
C5_Witness ==
  /\ pc = "returned"
  /\ Len(data_loader) > BatchSize
  /\ Len(data_loader) % BatchSize # 0
  /\ Len(preds) = Len(data_loader)

\* C6: the three files are written only after the whole pass and the metric
\* computation; a failed batch leaves no file and nothing runs after it.
C6_FilesOnlyAfterPass ==
  /\ files # <<>> =>
       /\ pc \in AfterPass \ {"returned"}
       /\ DOMAIN scores # {}
       /\ iterations * BatchSize >= Len(data_loader)
       /\ Len(preds) = Len(data_loader)
       /\ files[1] = [name |-> "results", content |-> scores]
  /\ Len(files) >= 2 => files[2] = [name |-> "preds", content |-> preds]
  /\ Len(files) >= 3 => files[3] = [name |-> "gts", content |-> gts]
  /\ Len(files) <= 3
  /\ pc = "failed" => files = <<>> /\ ~ENABLED Next

\* main() has written all three files after a pass over several batches
C6_Witness ==
  /\ pc = "done"
  /\ Len(files) = 3
  /\ iterations > 1

\* C7: every prediction call is made with dropout disabled (eval mode) and
\* with gradient tracking disabled.
C7_InferenceMode ==
  ret.call \in {"predict_from_category", "predict_from_answer"} =>
    ~ret.training /\ ~ret.grad

\* C8: with teacher_forcing_ratio = 0, the same inputs and weights, and the
\* generator reseeded before each call, two calls of predict_from_category
\* return the same tokens.
C8_Deterministic ==
  (mpc = "pred2" /\ inp.teacher_forcing_ratio = 0) =>
    /\ ret.val.status = ret1.status
    /\ ret.val.tokens = ret1.tokens

\* the second of two seeded calls has returned tokens, in scaled-noise mode,
\* with reference questions passed and ratio 0
C8_Witness ==
  /\ mpc = "pred2"
  /\ inp.teacher_forcing_ratio = 0
  /\ inp.questions # None
  /\ vqg.bayes
  /\ ret.val.status = "ok"
  /\ Len(ret.val.tokens) = BatchSize

\* C9: predict-from-category over N examples emits N token sequences of
\* max_len ids each, every id in [0, V).
C9_TokenIdsInVocab ==
  /\ Len(emitted) = Seen
  /\ \A k \in DOMAIN emitted :
       /\ Len(emitted[k].tokens) = MaxLen
       /\ \A t \in 1..MaxLen :
            emitted[k].tokens[t] >= 0 /\ emitted[k].tokens[t] < VocabSize
  /\ pc \in AfterPass => Len(emitted) = Len(data_loader)

\* the pass over a dataset of 2 examples has ended
C9_Witness ==
  /\ pc \in AfterPass
  /\ Len(data_loader) = 2
  /\ Len(emitted) = 2

\* C10: forward returns the decoder result (scores, hidden states,
\* attributes) for a latent sample drawn by the sampler of its mode.
C10_ForwardReturnsDecoderResult ==
  mpc = "forwarded" => ret.val.status = "ok" /\ Len(ret.val.result) = 3

\* C11: when the projected mean or log-variance holds a NaN or an infinity,
\* the mu and logvar encode_into_t returns (the ones its sampler was given)
\* are finite and within [-2, 2] and [-20, 20].
C11_ClampYieldsFinite ==
  EncodeReturned =>
    \A b \in DOMAIN ret.val.mus : \A j \in 1..ZSize :
      /\ ~IsFinite(ret.val.rawMus[b][j]) =>
           /\ IsFinite(ret.val.mus[b][j])
           /\ ret.val.mus[b][j] >= 0 - MuClamp * Unit
           /\ ret.val.mus[b][j] <= MuClamp * Unit
      /\ ~IsFinite(ret.val.rawLvs[b][j]) =>
           /\ IsFinite(ret.val.logvars[b][j])
           /\ ret.val.logvars[b][j] >= 0 - LogvarClamp * Unit
           /\ ret.val.logvars[b][j] <= LogvarClamp * Unit

\* the layers of an initial hidden state (those of the hidden component, for
\* an LSTM's pair)
LayersOf(hiddens) == IF vqg.rnn_cell = "LSTM" THEN hiddens[1] ELSE hiddens

\* C12: the initial hidden state decode_questions hands the decoder has
\* num_layers layers, each holding the same one vector per example; for an
\* LSTM its hidden and cell components are equal; with image features given
\* and with None.
C12_LayersInitializedIdentically ==
  ret.call = "decode_questions" =>
    /\ Len(LayersOf(ret.val.hiddens)) = NumLayers
    /\ \A l \in 1..NumLayers :
         /\ Len(LayersOf(ret.val.hiddens)[l]) = Len(ret.zs)
         /\ LayersOf(ret.val.hiddens)[l] = LayersOf(ret.val.hiddens)[1]
    /\ vqg.rnn_cell = "LSTM" =>
         /\ Len(ret.val.hiddens) = 2
         /\ ret.val.hiddens[1] = ret.val.hiddens[2]

\* decode_questions has built the state of an LSTM decoder for a full batch
\* without image features, and the examples' vectors differ
C12_Witness ==
  /\ ret.call = "decode_questions"
  /\ vqg.rnn_cell = "LSTM"
  /\ ret.image_features = None
  /\ Len(ret.zs) = BatchSize
  /\ NumLayers > 1
  /\ \E b \in 2..BatchSize :
       ret.val.hiddens[1][1][b] # ret.val.hiddens[1][1][1]

\* C13: without an accelerator, every predict_from_category call of the
\* harness returns, in both sampling modes, so the from-category pass never
\* aborts.
C13_RunsOnCpu ==
  (~cuda /\ ~args.from_answer) =>
    /\ pc # "failed"
    /\ ret.call = "predict_from_category" => ret.val.status = "ok"

\* other reference questions a batch of `size` examples could carry
AltQuestions(size) ==
  {[i \in 1..size |-> [t \in 1..MaxLen |-> (c + i * t) % VocabSize]] :
     c \in 0..(VocabSize - 1)}

\* the reference questions of the batch in hand
BatchQuestions == [i \in DOMAIN batch |-> data_loader[batch[i]].question]

\* C14: the outcome of evaluate()'s prediction call for a batch (the tokens,
\* and the generator state it leaves for the next batch) is the one the same
\* call gives, from the same random source, for the same images and
\* categories with any other reference questions.
C14_ReferencesDoNotInfluencePredictions ==
  (ret.call = "predict_from_category" /\ pc \in {"predicted", "failed"}) =>
    \A other \in AltQuestions(Len(batch)) :
      Predict(vqg, [i \in DOMAIN batch |-> data_loader[batch[i]].image], other,
              [i \in DOMAIN batch |-> data_loader[batch[i]].category],
              ret.coins, ret.rng, cuda) = ret.val

\* a full batch was predicted, and some other reference questions differ from
\* its own in every example
C14_Witness ==
  /\ pc = "predicted"
  /\ ret.call = "predict_from_category"
  /\ ret.val.status = "ok"
  /\ Len(batch) = BatchSize
  /\ outputs = ret.val.tokens
  /\ \E other \in AltQuestions(BatchSize) :
       \A i \in 1..BatchSize : other[i] # BatchQuestions[i]
=============================================================================
